---------------------------- MODULE Spec2Model ----------------------------
(***************************************************************************)
(* Model of data/process_data.py: the ETL pipeline load_data -> clean_data *)
(* -> save_data driven by main.                                            *)
(*                                                                         *)
(* Text that the program parses (the `categories` strings and their        *)
(* tokens) is a sequence of one-character strings, so that split, slicing, *)
(* replace and to_numeric are computed character by character.  Text the   *)
(* program only carries along (message content, printed lines, paths) is   *)
(* an opaque string.  An optional value is <<>> (None / NaN) or <<v>>.     *)
(*                                                                         *)
(* A data frame is [columns |-> sequence of column names, rows |-> sequence*)
(* of rows], a row being a function from the column names to the cells.    *)
(***************************************************************************)
EXTENDS Integers, Sequences, FiniteSets, TLC

VARIABLES
    argv,        \* sys.argv: the program name followed by the arguments
    fs,          \* the two input files: <<>> (no such file) or <<table>>
    db,          \* the SQLite database: table name -> data frame
    dbWritable,  \* whether the database path can be opened for writing
    pc,          \* position of main / of the caller
    messages,    \* main's local `messages`
    categories,  \* main's local `categories`
    df,          \* main's local `df`
    error,       \* the exception that ended the run ("" when none)
    stdout,      \* lines printed so far
    call         \* the latest save_data call: how many so far, its
                 \* arguments and the database it found

vars == <<argv, fs, db, dbWritable, pc, messages, categories, df, error,
          stdout, call>>

---------------------------------------------------------------------------
(* Bounds of the model.                                                    *)

MaxMsgRows == 2     \* rows of a messages table handed to clean_data
MaxCatRows == 2     \* rows of a categories table handed to clean_data
MaxFileRows == 1    \* rows of an input file in a run of main
MaxArgs == 4        \* command-line arguments of a run of main
MaxSaveRows == 2    \* rows of a data frame handed to save_data directly
MaxCalls == 3       \* direct save_data calls in a row

---------------------------------------------------------------------------
(* Text.                                                                   *)

None == <<>>
Some(v) == <<v>>

Digits == {"0", "1", "2", "3", "4", "5", "6", "7", "8", "9"}

DigitVal(c) ==
    CASE c = "0" -> 0 [] c = "1" -> 1 [] c = "2" -> 2 [] c = "3" -> 3
      [] c = "4" -> 4 [] c = "5" -> 5 [] c = "6" -> 6 [] c = "7" -> 7
      [] c = "8" -> 8 [] c = "9" -> 9

\* s[:-2]
DropLast2(s) == IF Len(s) <= 2 THEN <<>> ELSE SubSeq(s, 1, Len(s) - 2)

\* s.startswith(p)
StartsWith(s, p) == Len(p) <= Len(s) /\ SubSeq(s, 1, Len(p)) = p

\* s.split(sep) for a one-character sep: always at least one piece
RECURSIVE SplitFrom(_, _, _)
SplitFrom(s, sep, cur) ==
    IF s = <<>> THEN <<cur>>
    ELSE IF Head(s) = sep THEN <<cur>> \o SplitFrom(Tail(s), sep, <<>>)
    ELSE SplitFrom(Tail(s), sep, Append(cur, Head(s)))

Split(s, sep) == SplitFrom(s, sep, <<>>)

\* s.replace(pat, ""), pat non-empty: every non-overlapping occurrence,
\* leftmost first
RECURSIVE Remove(_, _)
Remove(s, pat) ==
    IF s = <<>> THEN <<>>
    ELSE IF StartsWith(s, pat)
         THEN Remove(SubSeq(s, Len(pat) + 1, Len(s)), pat)
         ELSE <<Head(s)>> \o Remove(Tail(s), pat)

RECURSIVE DigitsValue(_, _)
DigitsValue(s, acc) ==
    IF s = <<>> THEN acc ELSE DigitsValue(Tail(s), 10 * acc + DigitVal(Head(s)))

IsDigits(s) == s # <<>> /\ \A i \in 1..Len(s) : s[i] \in Digits

\* The strings pd.to_numeric parses, over the model's alphabet (letters,
\* digits, "-", ";"): an optionally signed run of digits.
IsNumeric(s) ==
    \/ IsDigits(s)
    \/ Len(s) >= 2 /\ s[1] = "-" /\ IsDigits(Tail(s))

NumericValue(s) ==
    IF s[1] = "-" THEN 0 - DigitsValue(Tail(s), 0) ELSE DigitsValue(s, 0)

RECURSIVE Join(_, _)
Join(parts, sep) ==
    IF Len(parts) = 1 THEN parts[1]
    ELSE parts[1] \o <<sep>> \o Join(Tail(parts), sep)

\* Sequences over S of length at most n
SeqUpTo(S, n) == UNION {[1..k -> S] : k \in 0..n}

\* F(v), with v evaluated once
With(v, F(_)) == CHOOSE r \in {F(x) : x \in {v}} : TRUE

SelectSeqIdx(s, Test(_)) ==
    LET F[i \in 0..Len(s)] ==
            IF i = 0 THEN <<>>
            ELSE IF Test(i) THEN Append(F[i - 1], s[i]) ELSE F[i - 1]
    IN  F[Len(s)]

---------------------------------------------------------------------------
(* Data frames.                                                            *)

cId == <<"i", "d">>
cMessage == <<"m", "e", "s", "s", "a", "g", "e">>
cCategories == <<"c", "a", "t", "e", "g", "o", "r", "i", "e", "s">>

Range(s) == {s[i] : i \in 1..Len(s)}

Frame(cols, rows) == [columns |-> cols, rows |-> rows]

EmptyFrame == Frame(<<>>, <<>>)

MaxOf(S) == IF S = {} THEN 0 ELSE CHOOSE m \in S : \A n \in S : n <= m

\* Mutant of Matches: the key is not compared (a cross join).
RECURSIVE Matches_cross(_, _, _)
Matches_cross(l, R, key) ==
    IF R = <<>> THEN <<>>
    ELSE <<l @@ Head(R)>> \o Matches_cross(l, Tail(R), key)

\* The right rows matching left row l on the key, in the right's order,
\* each joined to l.
RECURSIVE Matches(_, _, _)
Matches(l, R, key) ==
    IF R = <<>> THEN <<>>
    ELSE (IF Head(R)[key] = l[key] THEN <<l @@ Head(R)>> ELSE <<>>)
         \o Matches(l, Tail(R), key)

RECURSIVE MergeRows(_, _, _)
MergeRows(L, R, key) ==
    IF L = <<>> THEN <<>>
    ELSE Matches(Head(L), R, key) \o MergeRows(Tail(L), R, key)

\* pd.merge(left, right, on=key): the default inner join, which keeps the
\* order of the left keys.  (Both frames share no column but the key.)
merge(left, right, key) ==
    Frame(left.columns \o SelectSeq(right.columns, LAMBDA c : c # key),
          MergeRows(left.rows, right.rows, key))

\* series.str.split(sep, expand=True): one column per piece, the shorter
\* rows padded with None.
SplitExpand(series, sep) ==
    LET pieces == [i \in 1..Len(series) |-> Split(series[i], sep)]
        width == MaxOf({Len(pieces[i]) : i \in 1..Len(series)})
    IN  [i \in 1..Len(series) |->
            [k \in 1..width |->
                IF k <= Len(pieces[i]) THEN Some(pieces[i][k]) ELSE None]]

\* Mutant of ColumnNames: only the last character is cut ([:-1]).
ColumnNames_drop1(row) ==
    [k \in 1..Len(row) |-> SubSeq(row[k][1], 1, Len(row[k][1]) - 1)]

\* The column names taken from the first row: each token without its last
\* two characters.
ColumnNames(row) == [k \in 1..Len(row) |-> DropLast2(row[k][1])]

\* Mutant of Replaced: the value is the last character of the token,
\* whatever its name.
Replaced_last(cell, column) ==
    IF cell = None \/ cell[1] = <<>> THEN cell
    ELSE Some(<<cell[1][Len(cell[1])]>>)

\* One cell of column `column` after .str.replace(column + "-", ""): None
\* stays None.
Replaced(cell, column) ==
    IF cell = None THEN None ELSE Some(Remove(cell[1], column \o <<"-">>))

\* pd.to_numeric on one cell: None and the empty string become NaN.
CellRaises(cell) == cell # None /\ cell[1] # <<>> /\ ~IsNumeric(cell[1])

ToNumeric(cell) ==
    IF cell = None \/ cell[1] = <<>> THEN None
    ELSE Some(NumericValue(cell[1]))

\* What the k-th iteration of the conversion loop raises ("" when nothing):
\* a repeated column label selects a frame, which has no .str accessor.
ColumnError(expanded, names, k) ==
    IF Cardinality({j \in 1..Len(names) : names[j] = names[k]}) > 1
    THEN "AttributeError"
    ELSE IF \E i \in 1..Len(expanded) :
                CellRaises(Replaced(expanded[i][k], names[k]))
         THEN "ValueError"
         ELSE ""

\* Mutant of DropDuplicates: only a row equal to the one just before it is
\* dropped.
DropDuplicates_adjacent(rows) ==
    SelectSeqIdx(rows, LAMBDA i : i = 1 \/ rows[i - 1] # rows[i])

\* df.drop_duplicates(): the first of each group of equal rows, in order.
DropDuplicates(rows) ==
    SelectSeqIdx(rows, LAMBDA i : \A j \in 1..(i - 1) : rows[j] # rows[i])

Raise(e) == [error |-> e, df |-> EmptyFrame, removed |-> 0]

\* Mutant of Attach: the categories column is not dropped.
Attach_keep(frame, names, converted) ==
    LET new == SelectSeqIdx(names,
                            LAMBDA k : names[k] \notin Range(frame.columns))
        cols == frame.columns \o new
    IN  Frame(cols,
              [i \in 1..Len(frame.rows) |->
                  [c \in Range(cols) |->
                      IF c \in Range(names)
                      THEN converted[i][CHOOSE k \in 1..Len(names) :
                                            names[k] = c]
                      ELSE frame.rows[i][c]]])

\* df.drop(columns=["categories"]) followed by df[names] = converted:
\* a name that is already a column is overwritten, a new one is appended.
Attach(frame, names, converted) ==
    LET kept == SelectSeq(frame.columns, LAMBDA c : c # cCategories)
        new == SelectSeqIdx(names, LAMBDA k : names[k] \notin Range(kept))
        cols == kept \o new
    IN  Frame(cols,
              [i \in 1..Len(frame.rows) |->
                  [c \in Range(cols) |->
                      IF c \in Range(names)
                      THEN converted[i][CHOOSE k \in 1..Len(names) :
                                            names[k] = c]
                      ELSE frame.rows[i][c]]])

\* The conversion loop over the named columns, then the attachment of the
\* converted columns to the merged frame.
ConvertColumns(merged, expanded, names) ==
    LET bad == {k \in 1..Len(names) :
                    ColumnError(expanded, names, k) # ""}
    IN  IF bad # {}
        THEN Raise(ColumnError(expanded, names,
                               CHOOSE k \in bad : \A j \in bad : k <= j))
        ELSE With([i \in 1..Len(expanded) |->
                      [k \in 1..Len(names) |->
                          ToNumeric(Replaced(expanded[i][k], names[k]))]],
                  LAMBDA converted :
                      [error |-> "",
                       df |-> Attach(merged, names, converted),
                       removed |-> 0])

\* The naming of the split columns after the first row.
NameColumns(merged, expanded) ==
    IF Len(expanded) = 0 THEN Raise("IndexError")          \* iloc[0]
    ELSE IF \E k \in 1..Len(expanded[1]) : expanded[1][k] = None
    THEN Raise("TypeError")                                \* cat[0] of NaN
    ELSE With(ColumnNames(expanded[1]),
              LAMBDA names : ConvertColumns(merged, expanded, names))

\* clean_data up to the removal of duplicates: the merged frame with the
\* categories column expanded into one numeric column per token of the
\* first row (`removed` is not yet known and left 0).
Expanded(msgs, cats) ==
    With(merge(msgs, cats, cId),
         LAMBDA merged :
             With(SplitExpand([i \in 1..Len(merged.rows) |->
                                  merged.rows[i][cCategories]], ";"),
                  LAMBDA expanded : NameColumns(merged, expanded)))

\* Mutant of Deduplicated: the number printed is that of the rows kept.
Deduplicated_kept(frame) ==
    LET kept == DropDuplicates(frame.rows)
    IN  [error |-> "",
         df |-> Frame(frame.columns, kept),
         removed |-> Len(kept)]

\* The frame with duplicate rows dropped, and how many were dropped (the
\* number clean_data prints).
Deduplicated(frame) ==
    With(DropDuplicates(frame.rows),
         LAMBDA kept :
             [error |-> "",
              df |-> Frame(frame.columns, kept),
              removed |-> Len(frame.rows) - Len(kept)])

clean_data(msgs, cats) ==
    With(Expanded(msgs, cats),
         LAMBDA r : IF r.error # "" THEN r ELSE Deduplicated(r.df))

---------------------------------------------------------------------------
(* Inputs.  Category names are words of letters that name no column of the *)
(* messages table.                                                         *)

related == <<"r", "e", "l", "a", "t", "e", "d">>
offer == <<"o", "f", "f", "e", "r">>

Token(name, value) == name \o <<"-", value>>

CatString(tokens) == Join(tokens, ";")

CategoryStrings ==
    { CatString(<<Token(related, "1"), Token(offer, "0")>>),
      CatString(<<Token(related, "2"), Token(offer, "1")>>),
      CatString(<<Token(offer, "0"), Token(related, "1")>>),
      CatString(<<Token(related, "1")>>),
      CatString(<<Token(related, "1"), Token(related, "0")>>) }

CategoryIds == {1, 2, 3}

MessageRow(i, text) == (cId :> i) @@ (cMessage :> text)

CategoryRow(i, cats) == (cId :> i) @@ (cCategories :> cats)

MessageRows ==
    { MessageRow(1, "flood here"), MessageRow(1, "help"),
      MessageRow(2, "help") }

CategoryRows ==
    {CategoryRow(i, c) : i \in CategoryIds, c \in CategoryStrings}

MessageTables(n) ==
    {Frame(<<cId, cMessage>>, rows) : rows \in SeqUpTo(MessageRows, n)}

CategoryTables(n) ==
    {Frame(<<cId, cCategories>>, rows) : rows \in SeqUpTo(CategoryRows, n)}

\* Cleaned frames handed to save_data directly.
SavedRow(i, v) ==
    (cId :> i) @@ (cMessage :> "flood here") @@ (related :> Some(v))

SavedFrames(n) ==
    {Frame(<<cId, cMessage, related>>, rows) :
        rows \in SeqUpTo({SavedRow(i, v) : i \in {1, 2}, v \in {0, 1}}, n)}

\* What an earlier run left in the database.
OldFrame == Frame(<<cId, cMessage, related>>, <<SavedRow(1, 1)>>)

---------------------------------------------------------------------------
(* The program.                                                            *)

TableName == "DISASTER_DATA"

NoTables == [t \in {} |-> EmptyFrame]

Paths == <<"disaster_messages.csv", "disaster_categories.csv",
           "DisasterResponse.db", "extra">>

Argv(n) == <<"process_data.py">> \o [i \in 1..n |-> Paths[IF i < 4 THEN i ELSE 4]]

Line(text) == [text |-> text, n |-> 0]

Removing(n) == [text |-> "Removing {} duplicates in the dataframe.", n |-> n]

Usage == Line("Please provide the filepaths ...")

NoCall ==
    [n |-> 0, df |-> EmptyFrame, should_replace |-> TRUE,
     existing |-> [t \in {} |-> EmptyFrame]]

\* load_data: the two frames read, or the error of the first file missing.
load_data(files) ==
    IF files.messages = None \/ files.categories = None
    THEN [error |-> "FileNotFoundError",
          messages |-> EmptyFrame, categories |-> EmptyFrame]
    ELSE [error |-> "",
          messages |-> files.messages[1], categories |-> files.categories[1]]

\* Mutant of save_data: the rows are appended to the table found
\* (if_exists="append").
save_data_append(frame, database, should_replace) ==
    IF TableName \in DOMAIN database
    THEN (TableName :> Frame(database[TableName].columns,
                             database[TableName].rows \o frame.rows))
         @@ database
    ELSE (TableName :> frame) @@ database

\* save_data: to_sql(..., if_exists="replace") whatever should_replace is.
save_data(frame, database, should_replace) ==
    (TableName :> frame) @@ database

\* Mutant of ArgsOk: surplus arguments are accepted.
ArgsOk_atleast == Len(argv) >= 4

\* main's test of the argument count
ArgsOk == Len(argv) = 4

MainStart ==
    /\ pc = "start"
    /\ ArgsOk
    /\ stdout' = Append(stdout, Line("Loading data..."))
    /\ pc' = "load"
    /\ UNCHANGED <<argv, fs, db, dbWritable, messages, categories, df,
                   error, call>>

MainUsage ==
    /\ pc = "start"
    /\ ~ArgsOk
    /\ stdout' = Append(stdout, Usage)
    /\ pc' = "done"
    /\ UNCHANGED <<argv, fs, db, dbWritable, messages, categories, df,
                   error, call>>

LoadData ==
    /\ pc = "load"
    /\ \E r \in {load_data(fs)} :
           IF r.error # ""
           THEN /\ error' = r.error
                /\ pc' = "aborted"
                /\ UNCHANGED <<messages, categories, stdout>>
           ELSE /\ messages' = r.messages
                /\ categories' = r.categories
                /\ stdout' = Append(stdout, Line("Cleaning data..."))
                /\ pc' = "clean"
                /\ UNCHANGED error
    /\ UNCHANGED <<argv, fs, db, dbWritable, df, call>>

\* Mutant of CleanData: the error of clean_data is swallowed and the run
\* goes on to save.
CleanData_swallow ==
    /\ pc = "clean"
    /\ \E r \in {clean_data(messages, categories)} :
           /\ df' = r.df
           /\ stdout' = stdout \o <<Removing(r.removed),
                                    Line("Saving data...")>>
           /\ pc' = "save"
           /\ UNCHANGED error
    /\ UNCHANGED <<argv, fs, db, dbWritable, messages, categories, call>>

CleanData ==
    /\ pc = "clean"
    /\ \E r \in {clean_data(messages, categories)} :
           IF r.error # ""
           THEN /\ error' = r.error
                /\ pc' = "aborted"
                /\ UNCHANGED <<df, stdout>>
           ELSE /\ df' = r.df
                /\ stdout' = stdout \o <<Removing(r.removed),
                                         Line("Saving data...")>>
                /\ pc' = "save"
                /\ UNCHANGED error
    /\ UNCHANGED <<argv, fs, db, dbWritable, messages, categories, call>>

SaveData ==
    /\ pc = "save"
    /\ IF ~dbWritable
       THEN /\ error' = "OperationalError"
            /\ pc' = "aborted"
            /\ UNCHANGED <<db, stdout, call>>
       ELSE /\ db' = save_data(df, db, TRUE)
            /\ call' = [n |-> call.n + 1, df |-> df, should_replace |-> TRUE,
                        existing |-> db]
            /\ stdout' = stdout \o <<Line("database: {} - tablename {}"),
                                     Line("Cleaned data saved to database!")>>
            /\ pc' = "done"
            /\ UNCHANGED error
    /\ UNCHANGED <<argv, fs, dbWritable, messages, categories, df>>

\* A caller other than main invoking save_data.
CallSaveData(frame, should_replace) ==
    /\ pc = "caller"
    /\ call.n < MaxCalls
    /\ db' = save_data(frame, db, should_replace)
    /\ call' = [n |-> call.n + 1, df |-> frame,
                should_replace |-> should_replace, existing |-> db]
    /\ stdout' = Append(stdout, Line("database: {} - tablename {}"))
    /\ UNCHANGED <<argv, fs, dbWritable, pc, messages, categories, df, error>>

---------------------------------------------------------------------------
(* Spec: a run of main.                                                    *)

Init ==
    /\ argv \in {Argv(n) : n \in 0..MaxArgs}
    /\ fs \in [messages :
                  {None} \cup {Some(t) : t \in MessageTables(MaxFileRows)},
               categories :
                  {None} \cup {Some(t) : t \in CategoryTables(MaxFileRows)}]
    /\ db \in {NoTables, TableName :> OldFrame}
    /\ dbWritable \in BOOLEAN
    /\ pc = "start"
    /\ messages = EmptyFrame
    /\ categories = EmptyFrame
    /\ df = EmptyFrame
    /\ error = ""
    /\ stdout = <<>>
    /\ call = NoCall

Next == MainStart \/ MainUsage \/ LoadData \/ CleanData \/ SaveData

Spec == Init /\ [][Next]_vars

(* SpecClean: clean_data applied, as main applies it, to every pair of     *)
(* loaded tables within the bounds.                                        *)

InitClean ==
    /\ argv = Argv(3)
    /\ messages \in MessageTables(MaxMsgRows)
    /\ categories \in CategoryTables(MaxCatRows)
    /\ fs = [messages |-> Some(messages), categories |-> Some(categories)]
    /\ db = NoTables
    /\ dbWritable = TRUE
    /\ pc = "clean"
    /\ df = EmptyFrame
    /\ error = ""
    /\ stdout = <<Line("Loading data..."), Line("Cleaning data...")>>
    /\ call = NoCall

NextClean == CleanData

SpecClean == InitClean /\ [][NextClean]_vars

(* SpecWriter: save_data called repeatedly on one database path.           *)

InitWriter ==
    /\ argv = <<>>
    /\ fs = [messages |-> None, categories |-> None]
    /\ db \in {NoTables, TableName :> OldFrame}
    /\ dbWritable = TRUE
    /\ pc = "caller"
    /\ messages = EmptyFrame
    /\ categories = EmptyFrame
    /\ df = EmptyFrame
    /\ error = ""
    /\ stdout = <<>>
    /\ call = NoCall

NextWriter ==
    \E frame \in SavedFrames(MaxSaveRows), should_replace \in BOOLEAN :
        CallSaveData(frame, should_replace)

SpecWriter == InitWriter /\ [][NextWriter]_vars

---------------------------------------------------------------------------
(* Properties of clean_data, stated over the inputs `messages` and         *)
(* `categories`, the result `df` and the printed lines (SpecClean).        *)

IdsOf(frame) == {frame.rows[i][cId] : i \in 1..Len(frame.rows)}

\* The pairs (message row, category row) with equal ids: the merged rows.
Pairs ==
    {p \in (1..Len(messages.rows)) \X (1..Len(categories.rows)) :
        messages.rows[p[1]][cId] = categories.rows[p[2]][cId]}

\* The first merged row: the first matched message row with the first
\* category row of its id.
FirstPair ==
    CHOOSE p \in Pairs :
        \A q \in Pairs : p[1] < q[1] \/ (p[1] = q[1] /\ p[2] <= q[2])

TokensAt(j) == Split(categories.rows[j][cCategories], ";")

NameOf(token) == DropLast2(token)

ValueOf(token) == DigitVal(token[Len(token)])

NamesAt(j) == [k \in 1..Len(TokensAt(j)) |-> NameOf(TokensAt(j)[k])]

\* `name-d`, d a digit
WellFormedToken(t) ==
    Len(t) >= 3 /\ t[Len(t) - 1] = "-" /\ t[Len(t)] \in Digits

Distinct(s) == \A i, j \in 1..Len(s) : i # j => s[i] # s[j]

\* Every category row has the token names of the first row, in its order,
\* each token being name-d.
WellFormedInput ==
    /\ categories.rows # <<>>
    /\ \A names \in {NamesAt(1)} :
          \A j \in 1..Len(categories.rows) :
              \A tokens \in {TokensAt(j)} :
                  /\ Len(tokens) = Len(names)
                  /\ \A k \in 1..Len(tokens) :
                        /\ WellFormedToken(tokens[k])
                        /\ NameOf(tokens[k]) = names[k]

\* The number clean_data printed
Reported == stdout[3].n

\* The output row the claims expect of merged row p when the k-th token of
\* every row goes under the first row's k-th name.
ExpectedRow(p, names) ==
    With(TokensAt(p[2]),
         LAMBDA tokens :
             [c \in {cId, cMessage} \cup Range(names) |->
                 IF c \in {cId, cMessage} THEN messages.rows[p[1]][c]
                 ELSE LET k == CHOOSE i \in 1..Len(names) : names[i] = c
                      IN  IF k <= Len(tokens) THEN Some(ValueOf(tokens[k]))
                          ELSE None])

\* C1: every id of the cleaned table is the id of a messages row and of a
\* categories row; rows without a match on the other side contribute no
\* output row.
C1_InnerJoin ==
    pc = "save" =>
        /\ IdsOf(df) \subseteq IdsOf(messages) \cap IdsOf(categories)
        /\ \A i \in 1..Len(df.rows) :
              \E p \in Pairs : df.rows[i][cId] = messages.rows[p[1]][cId]

C1_Witness ==
    /\ pc = "save"
    /\ IdsOf(messages) \ IdsOf(categories) # {}
    /\ IdsOf(categories) \ IdsOf(messages) # {}

\* C2 as claimed: no two distinct rows of the cleaned table carry the same
\* id.
C2_IdUnique ==
    pc = "save" =>
        \A i, j \in 1..Len(df.rows) :
            i # j => df.rows[i][cId] # df.rows[j][cId]

\* Every id occurs in the input with one message content and one category
\* string.
SingleValued ==
    /\ \A a, b \in 1..Len(messages.rows) :
          messages.rows[a][cId] = messages.rows[b][cId]
              => messages.rows[a] = messages.rows[b]
    /\ \A a, b \in 1..Len(categories.rows) :
          categories.rows[a][cId] = categories.rows[b][cId]
              => categories.rows[a] = categories.rows[b]

\* C2 as amended: no two distinct rows of the cleaned table are equal in
\* every column, and the id is unique when every id occurs in the input
\* with a single message content and a single category string.
C2_RowsUnique ==
    pc = "save" =>
        /\ \A i, j \in 1..Len(df.rows) : i # j => df.rows[i] # df.rows[j]
        /\ SingleValued =>
              \A i, j \in 1..Len(df.rows) :
                  i # j => df.rows[i][cId] # df.rows[j][cId]

C2_Witness ==
    /\ pc = "save"
    /\ Reported > 0
    /\ \E i, j \in 1..Len(df.rows) :
          /\ i # j
          /\ df.rows[i][cId] = df.rows[j][cId]
          /\ df.rows[i][cMessage] # df.rows[j][cMessage]

\* What C3 says of the result: the k-th derived column is named after the
\* first row's k-th token without its last two characters, every output row
\* holds under it the digit of its own k-th token, and none holds a null.
C3_Result ==
    /\ pc = "save"
    /\ \A names \in {NamesAt(1)} :
          /\ df.columns = <<cId, cMessage>> \o names
          /\ Range(df.rows) = {ExpectedRow(p, names) : p \in Pairs}
          /\ \A i \in 1..Len(df.rows) :
                \A k \in 1..Len(names) : df.rows[i][names[k]] # None

\* The scenario of C3: one message "flood here" with "related-1;offer-0".
C3_Scenario ==
    ( /\ messages.rows = <<MessageRow(1, "flood here")>>
      /\ categories.rows =
            <<CategoryRow(1, CatString(<<Token(related, "1"),
                                         Token(offer, "0")>>))>> )
    => df = Frame(<<cId, cMessage, related, offer>>,
                  <<(cId :> 1) @@ (cMessage :> "flood here")
                    @@ (related :> Some(1)) @@ (offer :> Some(0))>>)

\* C3 as claimed: on every well-formed input (with a merged row to name
\* the columns after) clean_data yields the named columns and the tokens'
\* digits.
C3_WellFormed ==
    (pc # "clean" /\ WellFormedInput /\ Pairs # {}) => C3_Result

\* C3 as amended: on every well-formed input whose first row's token names
\* are pairwise distinct, and with at least one merged row, clean_data
\* completes, names the k-th derived column after the first row's k-th
\* token without its last two characters, and every output row holds under
\* it the digit of its own k-th token, never a null; the scenario yields
\* {id:1, message:"flood here", related:1, offer:0}.
C3_WellFormedDistinct ==
    (pc # "clean" /\ WellFormedInput /\ Pairs # {} /\ Distinct(NamesAt(1)))
        => C3_Result /\ C3_Scenario

C3_Witness ==
    /\ pc = "save"
    /\ WellFormedInput
    /\ \E i, j \in 1..Len(df.rows) :
          df.rows[i][related] # df.rows[j][related]

\* C4 as claimed: the cleaned table has as many columns as the messages
\* table, plus those of the categories table but the raw one, plus one per
\* token of the first merged row's categories string.
C4_ColumnCount ==
    pc = "save" =>
        Len(df.columns) = Len(messages.columns)
                          + (Len(categories.columns) - 1)
                          + Len(TokensAt(FirstPair[2]))

\* C4 as amended: the cleaned table has as many columns as the messages
\* table, plus those of the categories table but the raw one and the id
\* (the join key, which the merge keeps once), plus one per token of the
\* first merged row's categories string.
C4_ColumnCountKey ==
    pc = "save" =>
        Len(df.columns) = Len(messages.columns)
                          + (Len(categories.columns) - 2)
                          + Len(TokensAt(FirstPair[2]))

C4_Witness ==
    /\ pc = "save"
    /\ \E p \in Pairs : Len(TokensAt(p[2])) < Len(TokensAt(FirstPair[2]))

\* The table before duplicates are dropped
BeforeDrop == Expanded(messages, categories).df.rows

FirstAt(rows, r) == CHOOSE i \in 1..Len(rows) :
                        rows[i] = r /\ \A j \in 1..(i - 1) : rows[j] # r

\* C5: the output holds each distinct row of the merged and expanded table
\* exactly once, in the order of first appearance, and the count printed
\* is the number of rows before minus the number of rows after.
C5_ExactDuplicates ==
    pc = "save" =>
        \A before \in {BeforeDrop} :
            /\ Distinct(df.rows)
            /\ Range(df.rows) = Range(before)
            /\ \A i, j \in 1..Len(df.rows) :
                  i < j => FirstAt(before, df.rows[i])
                               < FirstAt(before, df.rows[j])
            /\ Len(before) = Cardinality(Pairs)
            /\ Reported = Cardinality(Pairs) - Len(df.rows)

\* A row that appears twice, and nothing else: one row, count 1.
C5_Witness ==
    /\ pc = "save"
    /\ Cardinality(Pairs) = 2
    /\ Len(df.rows) = 1
    /\ Reported = 1

\* Some merged row's token names are not those of the first merged row.
SomeRowDiffers ==
    \A names \in {NamesAt(FirstPair[2])} :
        \E p \in Pairs : NamesAt(p[2]) # names

\* Every merged row's k-th token value stands under the first row's k-th
\* name.
PlacedByPosition ==
    \A names \in {NamesAt(FirstPair[2])} :
        Range(df.rows) = {ExpectedRow(p, names) : p \in Pairs}

---------------------------------------------------------------------------
(* Properties of save_data called repeatedly (SpecWriter).                 *)

\* C6: after a save_data call with should_replace = TRUE the database holds
\* the one table DISASTER_DATA, and its rows are those of the frame of that
\* call, whatever earlier calls wrote.
C6_LatestReplaces ==
    (call.n > 0 /\ call.should_replace) =>
        /\ DOMAIN db = {TableName}
        /\ db[TableName] = call.df

\* A second or later call that found a table with other rows.
C6_Witness ==
    /\ call.n >= 2
    /\ call.should_replace
    /\ TableName \in DOMAIN call.existing
    /\ call.existing[TableName].rows # <<>>
    /\ call.df.rows # <<>>
    /\ call.existing[TableName] # call.df

\* C7: when the table exists, save_data replaces it if should_replace is
\* TRUE and otherwise leaves it (the call fails) or appends to it.
C7_HonoursFlag ==
    (call.n > 0 /\ TableName \in DOMAIN call.existing) =>
        IF call.should_replace
        THEN db[TableName] = call.df
        ELSE \/ db = call.existing
             \/ db[TableName] =
                    Frame(call.existing[TableName].columns,
                          call.existing[TableName].rows \o call.df.rows)

---------------------------------------------------------------------------
(* Properties of a run of main (Spec).                                     *)

\* C8: with a number of arguments other than 3, main prints the usage text
\* and returns: nothing is loaded, cleaned or saved, no error is raised and
\* the database stays as it is.
C8_UsageOnly ==
    /\ [](Len(argv) - 1 # 3 =>
            /\ pc \in {"start", "done"}
            /\ stdout = IF pc = "start" THEN <<>> ELSE <<Usage>>
            /\ error = ""
            /\ messages = EmptyFrame
            /\ categories = EmptyFrame
            /\ df = EmptyFrame
            /\ call = NoCall)
    /\ [][Len(argv) - 1 # 3 => db' = db /\ fs' = fs]_vars

C8_Witness ==
    /\ Len(argv) - 1 = 2
    /\ pc = "done"
    /\ stdout = <<Usage>>
    /\ TableName \in DOMAIN db

Forward ==
    { <<"start", "load">>, <<"load", "clean">>, <<"clean", "save">>,
      <<"save", "done">>, <<"load", "aborted">>, <<"clean", "aborted">>,
      <<"save", "aborted">>, <<"start", "done">> }

LoadFails == fs.messages = None \/ fs.categories = None

CleanFails == clean_data(messages, categories).error # ""

\* C9: a run with 3 arguments goes through load_data, clean_data and
\* save_data in this order, each at most once; the database is written
\* only by save_data, after the files were loaded and cleaned without
\* error; an error in loading or cleaning ends the run with the database
\* as it was; a run that ends without error leaves the cleaned table in
\* DISASTER_DATA.
C9_ForwardOnly ==
    /\ [][pc' # pc => <<pc, pc'>> \in Forward]_vars
    /\ [](\A i, j \in 1..Len(stdout) : i # j => stdout[i].text # stdout[j].text)
    /\ [](pc = "save" =>
            /\ error = ""
            /\ messages = fs.messages[1]
            /\ categories = fs.categories[1]
            /\ ~CleanFails
            /\ df = clean_data(messages, categories).df)
    /\ [][db' # db => pc = "save" /\ pc' = "done"]_vars
    /\ [][(pc = "load" /\ LoadFails) \/ (pc = "clean" /\ CleanFails)
            => pc' = "aborted" /\ db' = db]_vars
    /\ []((pc = "done" /\ Len(argv) - 1 = 3) =>
            /\ error = ""
            /\ DOMAIN db = {TableName}
            /\ db[TableName] = df
            /\ df = clean_data(fs.messages[1], fs.categories[1]).df)

\* A run that clean_data aborted, the table of an earlier run still there.
C9_Witness ==
    /\ pc = "aborted"
    /\ error = "AttributeError"
    /\ db = (TableName :> OldFrame)

===========================================================================
